---- MODULE Spec2Model ----
(***************************************************************************)
(* A model of gaxler/stack-machines, sm-rs/src/memory: the Raw Block       *)
(* (block.rs), the Line Map's hole search and the bump allocator           *)
(* (allocation.rs); and of sm-rs/src/main.rs: the stack machine and the    *)
(* program that main builds and runs.                                      *)
(***************************************************************************)
EXTENDS Integers, Naturals, Sequences, FiniteSets, TLC

VARIABLES
    line,            \* BlockMeta.line, as the set of the indices i with line[i] = true
    black_mark,      \* BlockMeta.black_mark
    cursor,          \* BumpBlock.cursor
    limit,           \* BumpBlock.limit
    block,           \* BumpBlock.block: the base address of the owned Block
    overflow_checks, \* build profile: TRUE = `+` panics on overflow, FALSE = it wraps
    hist,            \* the allocate calls made so far, one record per call
    query,           \* the last find_available_hole call and what it returned
    heap,            \* the global allocator's live allocations
    blocks,          \* the Block values that are alive (not yet dropped)
    acquired,        \* log of the successful alloc() calls, in order
    released,        \* log of the dealloc() calls, in order
    new_ret,         \* the last Block::new call and what it returned
    stack,           \* Program.stack, the top of the stack is the last element
    input,           \* Program.input, read from its end (Vec::pop)
    ops_cursor,      \* Program.cursor, a 0-based index into Program.ops
    output,          \* the values run has printed, each with the stack left behind
    signal,          \* how the last step of run ended: "Run", "Kill" or "panic"
    pairs            \* the (num, divisor) pairs the input was built from

vars == <<line, black_mark, cursor, limit, block, overflow_checks, hist, query,
          heap, blocks, acquired, released, new_ret,
          stack, input, ops_cursor, output, signal, pairs>>

bumpVars  == <<cursor, limit, block, overflow_checks, hist>>
metaVars  == <<line, black_mark>>
blockVars == <<heap, blocks, acquired, released, new_ret>>
vmVars    == <<stack, input, ops_cursor, output, signal, pairs>>

(* The machine before a program is loaded into it *)
NoProgram ==
    /\ stack = <<>> /\ input = <<>> /\ ops_cursor = 0
    /\ output = <<>> /\ signal = "Run" /\ pairs = <<>>

----------------------------------------------------------------------------
(* Constants of allocation.rs *)

BLOCK_SIZE_BITS == 16
BLOCK_SIZE == 2 ^ (BLOCK_SIZE_BITS - 1)

LINE_SIZE_BITS == 8
LINE_SIZE == 2 ^ (LINE_SIZE_BITS - 1)
LINE_COUNT == BLOCK_SIZE \div LINE_SIZE

(* usize: the width of the machine word in the model *)
WORD_BITS == 20
USIZE_MAX == 2 ^ WORD_BITS - 1
ISIZE_MAX == 2 ^ (WORD_BITS - 1) - 1

(* Option<T> *)
None == <<>>
Some(v) == <<v>>

----------------------------------------------------------------------------
(* The occupancy tables the model starts from: every pattern over the first *)
(* MaxPrefix lines, followed by one of four shapes of the remaining lines.  *)

MaxPrefix == 3

TailShapes ==
    { {},                                \* the rest of the block is free
      {LINE_COUNT - 1},                  \* only the last line is occupied
      {LINE_COUNT \div 2},               \* one occupied line in the middle
      MaxPrefix .. (LINE_COUNT - 1) }    \* the rest of the block is occupied

LineMaps ==
    { P \cup T : P \in SUBSET (0 .. (MaxPrefix - 1)), T \in TailShapes }

----------------------------------------------------------------------------
(* BlockMeta::find_available_hole *)

(* The locals of the scan, and `ret`: None while the loop runs, Some(r) once *)
(* it has returned r.                                                        *)
ScanStart == [free_lines |-> 0, start |-> None, stop |-> 0, ret |-> None]

(* Variants of the loop body, each with one slip, selected by `slip`:         *)
(*   "no_skip"    the first free line of a run is not skipped                 *)
(*   "stop_short" stop is set to abs_idx instead of abs_idx + 1               *)
ScanLine_slip(ln, st, abs_idx, slip) ==
    IF st.ret # None THEN st
    ELSE
      LET full_line == abs_idx \in ln
          free1 == IF ~full_line THEN st.free_lines + 1 ELSE st.free_lines
          skip  == slip # "no_skip" /\ ~full_line /\ free1 = 1 /\ abs_idx > 0
          start1 == IF ~full_line /\ st.start = None THEN Some(abs_idx) ELSE st.start
          stop1 == IF ~full_line
                   THEN (IF slip = "stop_short" THEN abs_idx ELSE abs_idx + 1)
                   ELSE st.stop
      IN  IF skip
          THEN [st EXCEPT !.free_lines = free1]
          ELSE IF free1 > 0 /\ (full_line \/ stop1 > LINE_COUNT) /\ start1 # None
          THEN [st EXCEPT !.ret = Some([tag |-> "Some",
                                        cursor |-> start1[1] * LINE_SIZE,
                                        limit |-> stop1 * LINE_SIZE])]
          ELSE IF full_line
          THEN [st EXCEPT !.free_lines = 0, !.start = None, !.stop = stop1]
          ELSE [st EXCEPT !.free_lines = free1, !.start = start1, !.stop = stop1]

ScanLine_no_skip(ln, st, abs_idx) == ScanLine_slip(ln, st, abs_idx, "no_skip")

ScanLine_stop_short(ln, st, abs_idx) == ScanLine_slip(ln, st, abs_idx, "stop_short")

(* The body of the for loop at line index abs_idx *)
ScanLine(ln, st, abs_idx) ==
    IF st.ret # None THEN st
    ELSE
      LET full_line == abs_idx \in ln
          free1 == IF ~full_line THEN st.free_lines + 1 ELSE st.free_lines
          skip  == ~full_line /\ free1 = 1 /\ abs_idx > 0
          start1 == IF ~full_line /\ st.start = None THEN Some(abs_idx) ELSE st.start
          stop1 == IF ~full_line THEN abs_idx + 1 ELSE st.stop
      IN  IF skip
          THEN [st EXCEPT !.free_lines = free1]                      \* continue
          ELSE IF free1 > 0 /\ (full_line \/ stop1 > LINE_COUNT) /\ start1 # None
          THEN [st EXCEPT !.ret = Some([tag |-> "Some",
                                        cursor |-> start1[1] * LINE_SIZE,
                                        limit |-> stop1 * LINE_SIZE])]
          ELSE IF full_line
          THEN [st EXCEPT !.free_lines = 0, !.start = None, !.stop = stop1]
          ELSE [st EXCEPT !.free_lines = free1, !.start = start1, !.stop = stop1]

(* The for loop over the line indices lo .. hi-1, in increasing order (the   *)
(* range is halved so that the evaluation stays shallow).                    *)
RECURSIVE ScanLines(_, _, _, _)
ScanLines(ln, st, lo, hi) ==
    IF lo >= hi THEN st
    ELSE IF hi = lo + 1 THEN ScanLine(ln, st, lo)
    ELSE LET mid == (lo + hi) \div 2
             left == ScanLines(ln, st, lo, mid)
         IN  IF left.ret # None THEN left          \* the loop has returned
             ELSE ScanLines(ln, left, mid, hi)

find_available_hole(ln, start_at_loc) ==
    LET start_at_line == start_at_loc \div LINE_SIZE
    IN  IF start_at_line > LINE_COUNT
        THEN [tag |-> "panic", cursor |-> 0, limit |-> 0]  \* slice index out of range
        ELSE LET st == ScanLines(ln, ScanStart, start_at_line, LINE_COUNT)
             IN  IF st.ret # None THEN st.ret[1]
                 ELSE [tag |-> "None", cursor |-> 0, limit |-> 0]

----------------------------------------------------------------------------
(* The hole search on its own: a table and a start offset, then one call *)

StartOffsets ==
    { 0, 1, LINE_SIZE - 1, LINE_SIZE, LINE_SIZE + 1, 2 * LINE_SIZE, 3 * LINE_SIZE,
      MaxPrefix * LINE_SIZE, (LINE_COUNT \div 2) * LINE_SIZE,
      (LINE_COUNT - 2) * LINE_SIZE, (LINE_COUNT - 1) * LINE_SIZE,
      BLOCK_SIZE - 1, BLOCK_SIZE }

NoQuery == [called |-> FALSE, start_at_loc |-> 0,
            ret |-> [tag |-> "None", cursor |-> 0, limit |-> 0]]

NoNew == [called |-> FALSE, size |-> 0, tag |-> "Err", err |-> "", ptr |-> 0,
          asked |-> FALSE]

InitHole ==
    /\ line \in LineMaps
    /\ black_mark = FALSE
    /\ cursor = 0 /\ limit = 0 /\ block = BLOCK_SIZE
    /\ overflow_checks = FALSE
    /\ hist = <<>>
    /\ query = NoQuery
    /\ heap = {} /\ blocks = {} /\ acquired = <<>> /\ released = <<>>
    /\ new_ret = NoNew
    /\ NoProgram

FindHole(start_at_loc) ==
    /\ query' = [called |-> TRUE, start_at_loc |-> start_at_loc,
                 ret |-> find_available_hole(line, start_at_loc)]
    /\ UNCHANGED <<metaVars, bumpVars, blockVars, vmVars>>

NextHole == \E s \in StartOffsets : FindHole(s)

SpecHole == InitHole /\ [][NextHole]_vars

----------------------------------------------------------------------------
(* BumpBlock::inner_alloc *)

(* cursor + alloc_size in usize: "overflow" is a panic where the build checks *)
(* overflow (debug profile) and wraps modulo 2^WORD_BITS where it does not.   *)
usize_add(a, b, checks) ==
    IF a + b > USIZE_MAX
    THEN IF checks THEN [tag |-> "panic", val |-> 0]
                   ELSE [tag |-> "ok", val |-> (a + b) % (2 ^ WORD_BITS)]
    ELSE [tag |-> "ok", val |-> a + b]

(* Variants of inner_alloc, each with one slip, selected by `slip`:            *)
(*   "block_end"   the fit test compares next_bump with BLOCK_SIZE, not limit  *)
(*   "wrap_around" when no hole is left after limit, the search starts over    *)
(*                 at offset 0 and adopts the hole it finds there              *)
(*   "bumped"      the offset returned is the bumped cursor, not the old one   *)
RECURSIVE inner_alloc_slip(_, _, _, _, _, _, _)
inner_alloc_slip(ln, cur, lim, alloc_size, checks, scans, slip) ==
    LET next_bump == usize_add(cur, alloc_size, checks)
        bound == IF slip = "block_end" THEN BLOCK_SIZE ELSE lim
    IN  IF next_bump.tag = "panic"
        THEN [tag |-> "panic", offset |-> 0, cursor |-> cur, limit |-> lim,
              scans |-> scans, adopted |-> <<>>]
        ELSE IF next_bump.val > bound
        THEN IF lim < BLOCK_SIZE
             THEN LET hole == find_available_hole(ln, lim)
                      again == find_available_hole(ln, 0)
                  IN  IF hole.tag = "Some"
                      THEN LET r == inner_alloc_slip(ln, hole.cursor, hole.limit,
                                                     alloc_size, checks, scans + 1, slip)
                           IN  [r EXCEPT !.adopted =
                                    <<[cursor |-> hole.cursor, limit |-> hole.limit]>>
                                    \o r.adopted]
                      ELSE IF slip = "wrap_around" /\ again.tag = "Some"
                      THEN [tag |-> "None", offset |-> 0, cursor |-> again.cursor,
                            limit |-> again.limit, scans |-> scans + 2,
                            adopted |-> <<[cursor |-> again.cursor,
                                           limit |-> again.limit]>>]
                      ELSE [tag |-> hole.tag, offset |-> 0, cursor |-> cur,
                            limit |-> lim, scans |-> scans + 1, adopted |-> <<>>]
             ELSE [tag |-> "None", offset |-> 0, cursor |-> cur, limit |-> lim,
                   scans |-> scans, adopted |-> <<>>]
        ELSE [tag |-> "Some",
              offset |-> IF slip = "bumped" THEN next_bump.val ELSE cur,
              cursor |-> next_bump.val, limit |-> lim, scans |-> scans,
              adopted |-> <<>>]

inner_alloc_block_end(ln, cur, lim, alloc_size, checks, scans) ==
    inner_alloc_slip(ln, cur, lim, alloc_size, checks, scans, "block_end")

inner_alloc_wrap_around(ln, cur, lim, alloc_size, checks, scans) ==
    inner_alloc_slip(ln, cur, lim, alloc_size, checks, scans, "wrap_around")

inner_alloc_bumped(ln, cur, lim, alloc_size, checks, scans) ==
    inner_alloc_slip(ln, cur, lim, alloc_size, checks, scans, "bumped")

(* The call on a BumpBlock with the given cursor and limit; `scans` counts the *)
(* find_available_hole calls made so far. The result carries the new cursor    *)
(* and limit, for Some the offset added to the block's base, and `adopted`,    *)
(* the holes the call assigned to (cursor, limit), in order.                   *)
RECURSIVE inner_alloc(_, _, _, _, _, _)
inner_alloc(ln, cur, lim, alloc_size, checks, scans) ==
    LET next_bump == usize_add(cur, alloc_size, checks)
    IN  IF next_bump.tag = "panic"
        THEN [tag |-> "panic", offset |-> 0, cursor |-> cur, limit |-> lim,
              scans |-> scans, adopted |-> <<>>]
        ELSE IF next_bump.val > lim
        THEN IF lim < BLOCK_SIZE
             THEN LET hole == find_available_hole(ln, lim)
                  IN  IF hole.tag = "Some"
                      THEN LET r == inner_alloc(ln, hole.cursor, hole.limit,
                                                alloc_size, checks, scans + 1)
                           IN  [r EXCEPT !.adopted =
                                    <<[cursor |-> hole.cursor, limit |-> hole.limit]>>
                                    \o r.adopted]
                      ELSE [tag |-> hole.tag, offset |-> 0, cursor |-> cur,
                            limit |-> lim, scans |-> scans + 1, adopted |-> <<>>]
             ELSE [tag |-> "None", offset |-> 0, cursor |-> cur, limit |-> lim,
                   scans |-> scans, adopted |-> <<>>]
        ELSE [tag |-> "Some", offset |-> cur, cursor |-> next_bump.val,
              limit |-> lim, scans |-> scans, adopted |-> <<>>]

----------------------------------------------------------------------------
(* The bump allocator: a BumpBlock with cursor = limit = 0 over a fixed table, *)
(* then a bounded number of allocate calls.                                    *)

MaxCalls == 2

Sizes ==
    { 0, 1, LINE_SIZE, 2 * LINE_SIZE, BLOCK_SIZE \div 2, BLOCK_SIZE,
      BLOCK_SIZE + 1, USIZE_MAX }

Panicked == \E i \in 1 .. Len(hist) : hist[i].tag = "panic"

Init ==
    /\ line \in LineMaps
    /\ black_mark = FALSE
    /\ cursor = 0 /\ limit = 0 /\ block = BLOCK_SIZE
    /\ overflow_checks \in BOOLEAN
    /\ hist = <<>>
    /\ query = NoQuery
    /\ heap = {} /\ blocks = {} /\ acquired = <<>> /\ released = <<>>
    /\ new_ret = NoNew
    /\ NoProgram

(* allocate marking the lines of the bytes it hands out as occupied *)
Allocate_marking(alloc_size) ==
    /\ Len(hist) < MaxCalls
    /\ ~Panicked
    /\ LET r == inner_alloc(line, cursor, limit, alloc_size, overflow_checks, 0)
       IN  /\ cursor' = r.cursor
           /\ limit' = r.limit
           /\ hist' = Append(hist, [alloc_size |-> alloc_size, tag |-> r.tag,
                                    offset |-> r.offset, ptr |-> block + r.offset,
                                    scans |-> r.scans, adopted |-> r.adopted,
                                    cursor0 |-> cursor, limit0 |-> limit,
                                    cursor1 |-> r.cursor, limit1 |-> r.limit])
           /\ line' = IF r.tag = "Some" /\ alloc_size > 0
                      THEN line \cup { l \in 0 .. (LINE_COUNT - 1) :
                                         /\ l * LINE_SIZE < r.offset + alloc_size
                                         /\ r.offset < (l + 1) * LINE_SIZE }
                      ELSE line
    /\ UNCHANGED <<black_mark, block, overflow_checks, query, blockVars, vmVars>>

Allocate(alloc_size) ==
    /\ Len(hist) < MaxCalls
    /\ ~Panicked
    /\ LET r == inner_alloc(line, cursor, limit, alloc_size, overflow_checks, 0)
       IN  /\ cursor' = r.cursor
           /\ limit' = r.limit
           /\ hist' = Append(hist, [alloc_size |-> alloc_size, tag |-> r.tag,
                                    offset |-> r.offset, ptr |-> block + r.offset,
                                    scans |-> r.scans, adopted |-> r.adopted,
                                    cursor0 |-> cursor, limit0 |-> limit,
                                    cursor1 |-> r.cursor, limit1 |-> r.limit])
    /\ UNCHANGED <<metaVars, block, overflow_checks, query, blockVars, vmVars>>

Next == \E alloc_size \in Sizes : Allocate(alloc_size)

Spec == Init /\ [][Next]_vars

----------------------------------------------------------------------------
(* block.rs: the Raw Block *)

(* usize::is_power_of_two: exactly one bit of the word is set *)
RECURSIVE count_ones(_)
count_ones(n) == IF n = 0 THEN 0 ELSE (n % 2) + count_ones(n \div 2)

is_power_of_two(n) == count_ones(n) = 1

(* Layout::from_size_align: the alignment is a power of two (so not 0) and   *)
(* the size, rounded up to the alignment, does not exceed isize::MAX.         *)
from_size_align(size, align) ==
    IF ~is_power_of_two(align) \/ size > ISIZE_MAX - (align - 1)
    THEN [tag |-> "Err", size |-> 0, align |-> 0]
    ELSE [tag |-> "Ok", size |-> size, align |-> align]

(* Layout::from_size_align_unchecked *)
from_size_align_unchecked(size, align) == [tag |-> "Ok", size |-> size, align |-> align]

(* The modelled address space of the global allocator: 1 .. HeapBytes - 1    *)
(* (address 0 is the null pointer).                                          *)
HeapBytes == 16

Overlaps(p, size, a) == p < a.ptr + a.size /\ a.ptr < p + size

(* std::alloc::alloc: null, or the address of layout.size bytes aligned to   *)
(* layout.align that overlap no live allocation.                             *)
alloc(layout) ==
    {0} \cup { p \in 1 .. (HeapBytes - 1) :
                 /\ p % layout.align = 0
                 /\ p + layout.size <= HeapBytes
                 /\ \A a \in heap : ~Overlaps(p, layout.size, a) }

(* alloc_block with the layout's alignment left at 1 instead of the size *)
alloc_block_unaligned(size) ==
    LET layout == from_size_align(size, 1)
    IN  IF layout.tag = "Err"
        THEN { [tag |-> "Err", err |-> "LayoutError", ptr |-> 0, size |-> 0,
                align |-> 0, asked |-> FALSE] }
        ELSE { IF p = 0
               THEN [tag |-> "Err", err |-> "OOM", ptr |-> 0, size |-> layout.size,
                     align |-> layout.align, asked |-> TRUE]
               ELSE [tag |-> "Ok", err |-> "", ptr |-> p, size |-> layout.size,
                     align |-> layout.align, asked |-> TRUE]
               : p \in alloc(layout) }

(* alloc_block: every outcome the call can have in the current heap. `asked` *)
(* tells whether alloc() was called; size/align are the layout passed to it. *)
alloc_block(size) ==
    LET layout == from_size_align(size, size)
    IN  IF layout.tag = "Err"
        THEN { [tag |-> "Err", err |-> "LayoutError", ptr |-> 0, size |-> 0,
                align |-> 0, asked |-> FALSE] }
        ELSE { IF p = 0
               THEN [tag |-> "Err", err |-> "OOM", ptr |-> 0, size |-> layout.size,
                     align |-> layout.align, asked |-> TRUE]
               ELSE [tag |-> "Ok", err |-> "", ptr |-> p, size |-> layout.size,
                     align |-> layout.align, asked |-> TRUE]
               : p \in alloc(layout) }

(* dealloc_block building its layout with alignment 1 instead of the size *)
dealloc_block_align1(ptr, size) ==
    LET layout == from_size_align_unchecked(size, 1)
    IN  [ptr |-> ptr, size |-> layout.size, align |-> layout.align]

(* dealloc_block: the dealloc(ptr, layout) call it makes *)
dealloc_block(ptr, size) ==
    LET layout == from_size_align_unchecked(size, size)
    IN  [ptr |-> ptr, size |-> layout.size, align |-> layout.align]

(* usize::next_power_of_two *)
RECURSIVE next_power_of_two_from(_, _)
next_power_of_two_from(n, p) == IF p >= n THEN p ELSE next_power_of_two_from(n, 2 * p)

(* Block::new rounding the size up to a power of two instead of rejecting it *)
Block_new_rounding(size) == alloc_block(next_power_of_two_from(size, 1))

(* Block::new: every outcome the call can have in the current heap *)
Block_new(size) ==
    IF is_power_of_two(size)
    THEN alloc_block(size)
    ELSE { [tag |-> "Err", err |-> "Not a power of 2", ptr |-> 0, size |-> 0,
            align |-> 0, asked |-> FALSE] }

MaxBlocks == 2
MaxBlockSize == 8

BlockSizes == (0 .. MaxBlockSize) \cup {2 ^ (WORD_BITS - 1), USIZE_MAX}

InitBlock ==
    /\ line = {}
    /\ black_mark = FALSE
    /\ cursor = 0 /\ limit = 0 /\ block = BLOCK_SIZE
    /\ overflow_checks = FALSE
    /\ hist = <<>>
    /\ query = NoQuery
    /\ heap = {} /\ blocks = {} /\ acquired = <<>> /\ released = <<>>
    /\ new_ret = NoNew
    /\ NoProgram

(* let block = Block::new(size) *)
New(size) ==
    /\ Len(acquired) < MaxBlocks
    /\ \E r \in Block_new(size) :
        /\ new_ret' = [called |-> TRUE, size |-> size, tag |-> r.tag, err |-> r.err,
                       ptr |-> r.ptr, asked |-> r.asked]
        /\ IF r.tag = "Ok"
           THEN /\ heap' = heap \cup {[ptr |-> r.ptr, size |-> r.size, align |-> r.align]}
                /\ acquired' = Append(acquired, [ptr |-> r.ptr, size |-> r.size,
                                                 align |-> r.align])
                /\ blocks' = blocks \cup {[id |-> Len(acquired) + 1, ptr |-> r.ptr,
                                           size |-> size]}
           ELSE UNCHANGED <<heap, acquired, blocks>>
    /\ UNCHANGED <<metaVars, bumpVars, query, released, vmVars>>

(* impl Drop for Block: the owner b goes away and its memory is deallocated. *)
(* `valid` records whether the dealloc call names a live allocation with the *)
(* layout it was allocated with (anything else is undefined behaviour).      *)
Drop(b) ==
    LET call == dealloc_block(b.ptr, b.size)
    IN  /\ blocks' = blocks \ {b}
        /\ released' = Append(released, [id |-> b.id, ptr |-> call.ptr,
                                         size |-> call.size, align |-> call.align,
                                         valid |-> call \in heap])
        /\ heap' = { a \in heap : a.ptr # call.ptr }
        /\ UNCHANGED <<metaVars, bumpVars, query, acquired, new_ret, vmVars>>

NextBlock ==
    \/ \E size \in BlockSizes : New(size)
    \/ \E b \in blocks : Drop(b)

SpecBlock == InitBlock /\ [][NextBlock]_vars

----------------------------------------------------------------------------
(* main.rs: the stack machine *)

(* type Word = usize, scaled to VM_WORD_BITS bits so that a run that wraps    *)
(* around the word stays short                                                *)
VM_WORD_BITS == 4
WORD_MAX == 2 ^ VM_WORD_BITS - 1

(* The result of `+`, `-` or `*` on Words whose exact value is raw: a panic   *)
(* in a build with overflow checks, the value modulo the word otherwise       *)
word(raw, checks) ==
    IF raw < 0 \/ raw > WORD_MAX
    THEN IF checks THEN [tag |-> "panic", val |-> 0]
                   ELSE [tag |-> "ok", val |-> raw % (2 ^ VM_WORD_BITS)]
    ELSE [tag |-> "ok", val |-> raw]

UnaryOp_exec(op, other, checks) ==
    CASE op = "Add1" -> word(other + 1, checks)
      [] op = "Sub1" -> word(other - 1, checks)

BinaryOp_exec(op, inp1, inp2, checks) ==
    CASE op = "Add" -> word(inp1 + inp2, checks)
      [] op = "Sub" -> word(inp1 - inp2, checks)
      [] op = "Mul" -> word(inp1 * inp2, checks)
      [] op = "Eq"  -> word(IF inp1 = inp2 THEN 1 ELSE 0, checks)
      [] op = "Gt"  -> word(IF inp1 > inp2 THEN 1 ELSE 0, checks)
      [] op = "Geq" -> word(IF inp1 >= inp2 THEN 1 ELSE 0, checks)

(* enum Ops *)
Push(val)    == [op |-> "Push", arg |-> val]
Unary(o)     == [op |-> "Unary", arg |-> o]
Binary(o)    == [op |-> "Binary", arg |-> o]
Duplicate    == [op |-> "Duplicate", arg |-> 0]
DropOp       == [op |-> "Drop", arg |-> 0]
Read         == [op |-> "Read", arg |-> 0]
Write        == [op |-> "Write", arg |-> 0]
Label(o)     == [op |-> "Label", arg |-> o]
Jump(pos)    == [op |-> "Jump", arg |-> pos]
SkipIfZero   == [op |-> "SkipIfZero", arg |-> 0]
Reverse(n)   == [op |-> "Reverse", arg |-> n]
NoOp         == [op |-> "NoOp", arg |-> 0]

(* The program main builds *)
code ==
    << Label(0), Read, Duplicate, Read,
       Label(1), Binary("Sub"), Duplicate, Reverse(3), Duplicate, Reverse(3),
       Binary("Gt"), SkipIfZero, Jump(2),
       DropOp, DropOp, Write, Jump(0),
       Label(2), DropOp, Duplicate, Reverse(3), Jump(1) >>

(* self.ops.get(self.cursor) *)
get_op(ops, cur) == IF cur < Len(ops) THEN Some(ops[cur + 1]) ELSE None

(* Program::jump: from index 0, the index of the first Label(pos); None stands *)
(* for the panic "JUMP failed: No label found"                                 *)
jump(ops, pos) ==
    LET found == { i \in 0 .. (Len(ops) - 1) : ops[i + 1] = Label(pos) }
    IN  IF found = {} THEN None
        ELSE Some(CHOOSE i \in found : \A j \in found : i <= j)

Top(st) == st[Len(st)]
Pop(st) == SubSeq(st, 1, Len(st) - 1)
Rev(s) == [i \in 1 .. Len(s) |-> s[Len(s) + 1 - i]]

Step(sig, out, st, inp, cur) ==
    [signal |-> sig, out |-> out, stack |-> st, input |-> inp, cursor |-> cur]

(* Program::exec_step: the signal it returns and the stack, input and cursor   *)
(* it leaves; pop_stack on an empty stack panics (unwrap)                      *)
exec_step(ops, st, inp, cur, checks) ==
    LET cur_op == get_op(ops, cur)
        op == cur_op[1]
        run == Step("Run", None, st, inp, cur)
        panic == Step("panic", None, st, inp, cur)
    IN  IF cur_op = None THEN Step("Kill", None, st, inp, cur)
        ELSE CASE op.op = "Push" -> [run EXCEPT !.stack = Append(st, op.arg)]
          [] op.op = "Unary" ->
               IF Len(st) < 1 THEN panic
               ELSE LET res == UnaryOp_exec(op.arg, Top(st), checks)
                    IN  IF res.tag = "panic" THEN [panic EXCEPT !.stack = Pop(st)]
                        ELSE [run EXCEPT !.stack = Append(Pop(st), res.val)]
          [] op.op = "Binary" ->
               IF Len(st) < 2 THEN [panic EXCEPT !.stack = <<>>]
               ELSE LET inp1 == Top(st)
                        inp2 == Top(Pop(st))
                        res == BinaryOp_exec(op.arg, inp1, inp2, checks)
                    IN  IF res.tag = "panic" THEN [panic EXCEPT !.stack = Pop(Pop(st))]
                        ELSE [run EXCEPT !.stack = Append(Pop(Pop(st)), res.val)]
          [] op.op = "Read" ->
               IF inp = <<>> THEN Step("Kill", None, st, inp, cur)
               ELSE [run EXCEPT !.stack = Append(st, Top(inp)), !.input = Pop(inp)]
          [] op.op = "Label" -> run
          [] op.op = "SkipIfZero" ->
               IF Len(st) < 1 THEN panic
               ELSE IF Top(st) = 0 THEN [run EXCEPT !.cursor = cur + 1] ELSE run
          [] op.op = "Duplicate" ->
               IF Len(st) < 1 THEN panic ELSE [run EXCEPT !.stack = Append(st, Top(st))]
          [] op.op = "Drop" ->
               IF Len(st) < 1 THEN panic ELSE [run EXCEPT !.stack = Pop(st)]
          [] op.op = "Write" ->
               IF Len(st) < 1 THEN panic
               ELSE [run EXCEPT !.out = Some(Top(st)), !.stack = Pop(st)]
          [] op.op = "Jump" ->
               LET to == jump(ops, op.arg)
               IN  IF to = None THEN [panic EXCEPT !.cursor = Len(ops)]
                   ELSE [run EXCEPT !.cursor = to[1]]
          [] op.op = "Reverse" ->
               IF Len(st) < op.arg THEN Step("Kill", None, <<>>, inp, cur)
               ELSE [run EXCEPT !.stack =
                         SubSeq(st, 1, Len(st) - op.arg)
                         \o Rev(SubSeq(st, Len(st) - op.arg + 1, Len(st)))]
          [] op.op = "NoOp" -> run

(* The inputs of the runs: up to MaxPairs pairs (num, divisor), num in         *)
(* 0 .. MaxNum and divisor in 1 .. MaxDiv                                      *)
MaxPairs == 2
MaxNum == 4
MaxDiv == 3

Pairs == [num : 0 .. MaxNum, divisor : 1 .. MaxDiv]

(* let input: Input = vec![num, divisor, num, divisor, ...] *)
InputOf(ps) == [i \in 1 .. (2 * Len(ps)) |->
                   IF i % 2 = 1 THEN ps[(i + 1) \div 2].num
                                ELSE ps[i \div 2].divisor]

(* main: the Program value before p.run() *)
InitVM ==
    /\ line = {}
    /\ black_mark = FALSE
    /\ cursor = 0 /\ limit = 0 /\ block = BLOCK_SIZE
    /\ overflow_checks \in BOOLEAN
    /\ hist = <<>>
    /\ query = NoQuery
    /\ heap = {} /\ blocks = {} /\ acquired = <<>> /\ released = <<>>
    /\ new_ret = NoNew
    /\ pairs \in UNION { [1 .. n -> Pairs] : n \in 0 .. MaxPairs }
    /\ input = InputOf(pairs)
    /\ stack = <<>>
    /\ ops_cursor = 0
    /\ output = <<>>
    /\ signal = "Run"

(* One turn of the loop of Program::run *)
RunStep ==
    /\ signal = "Run"
    /\ LET r == exec_step(code, stack, input, ops_cursor, overflow_checks)
       IN  /\ signal' = r.signal
           /\ stack' = r.stack
           /\ input' = r.input
           /\ ops_cursor' = IF r.signal = "Run" THEN r.cursor + 1 ELSE r.cursor
           /\ output' = IF r.signal = "Run" /\ r.out # None
                        THEN Append(output, [out |-> r.out[1], stack |-> r.stack])
                        ELSE output
    /\ UNCHANGED <<metaVars, bumpVars, query, blockVars, pairs>>

NextVM == RunStep

SpecVM == InitVM /\ [][NextVM]_vars

----------------------------------------------------------------------------
(* Vocabulary of the properties *)

AllFree == line = {}
OccupiedExactly(S) == line = S

HoleSome(c, l) == [tag |-> "Some", cursor |-> c, limit |-> l]

IsPow2(n) == \E k \in 0 .. (WORD_BITS - 1) : n = 2 ^ k

RECURSIVE SumSizes(_)
SumSizes(i) == IF i = 0 THEN 0 ELSE hist[i].alloc_size + SumSizes(i - 1)

(* The holes that the hole-discovery rules define for a scan of table ln from *)
(* line index `from`, as pairs of line indices <<s, e>>: lines s .. e-1 are    *)
(* free, the run ends at an occupied line or at the end of the block, and s is *)
(* line 0 or follows the first free line the scan meets in the run.            *)
RuleHole(ln, from, s, e) ==
    /\ from <= s /\ s < e /\ e <= LINE_COUNT
    /\ (e = LINE_COUNT \/ e \in ln)
    /\ \/ s = 0
       \/ /\ s - 1 >= from
          /\ (s - 1) \notin ln
          /\ (s - 1 = from \/ (s - 2) \in ln)
    /\ \A i \in s .. (e - 1) : i \notin ln

(* C1: on a table whose lines are all free, find_available_hole(0) returns the *)
(* single hole (0, BLOCK_SIZE).                                                *)
C1_AllFreeWholeBlock ==
    (query.called /\ query.start_at_loc = 0 /\ AllFree)
        => query.ret = HoleSome(0, BLOCK_SIZE)

(* C2: on an all-free table, from cursor = limit = 0, allocate calls of        *)
(* positive sizes that stay within BLOCK_SIZE in total all succeed, each at or *)
(* after the end of every earlier one and inside the block; once the sizes sum *)
(* to BLOCK_SIZE the next call of a positive size returns None.                *)
C2_TilingAllocations ==
    AllFree =>
      \A i \in 1 .. Len(hist) :
        (\A j \in 1 .. i : hist[j].alloc_size > 0) =>
          /\ SumSizes(i) <= BLOCK_SIZE =>
               /\ hist[i].tag = "Some"
               /\ hist[i].offset + hist[i].alloc_size <= BLOCK_SIZE
               /\ \A j \in 1 .. (i - 1) :
                    /\ hist[j].offset < hist[i].offset
                    /\ hist[j].offset + hist[j].alloc_size <= hist[i].offset
          /\ SumSizes(i - 1) = BLOCK_SIZE => hist[i].tag = "None"

(* C3: every successful allocate(size) returns base + offset with the bytes    *)
(* [offset, offset+size) inside the block and on no occupied line.             *)
C3_AllocationInFreeBytes ==
    \A i \in 1 .. Len(hist) :
      hist[i].tag = "Some" =>
        /\ hist[i].ptr = block + hist[i].offset
        /\ hist[i].offset + hist[i].alloc_size <= BLOCK_SIZE
        /\ \A l \in 0 .. (LINE_COUNT - 1) :
             (/\ l * LINE_SIZE < hist[i].offset + hist[i].alloc_size
              /\ hist[i].offset < (l + 1) * LINE_SIZE) => l \notin line

(* C4: an allocate call with a size greater than BLOCK_SIZE returns None.      *)
C4_OversizedReturnsNone ==
    \A i \in 1 .. Len(hist) :
      hist[i].alloc_size > BLOCK_SIZE => hist[i].tag = "None"

(* C5: allocate returns None only when neither the rest of the current hole    *)
(* nor any hole the discovery rules define at or after limit has alloc_size    *)
(* bytes, and without a scan when limit is already BLOCK_SIZE.                 *)
C5_NoneOnlyWhenNoHoleFits ==
    \A i \in 1 .. Len(hist) :
      hist[i].tag = "None" =>
        /\ hist[i].limit0 - hist[i].cursor0 < hist[i].alloc_size
        /\ ~ \E s \in 0 .. (LINE_COUNT - 1), e \in 1 .. LINE_COUNT :
               /\ RuleHole(line, hist[i].limit0 \div LINE_SIZE, s, e)
               /\ (e - s) * LINE_SIZE >= hist[i].alloc_size
        /\ hist[i].limit0 = BLOCK_SIZE => hist[i].scans = 0

(* C6: Block::new of a size that is not a power of two (0 included) returns an *)
(* error and no block, and does not call the allocator.                        *)
C6_NotPowerOfTwoFails ==
    /\ (new_ret.called /\ ~IsPow2(new_ret.size)) =>
          /\ new_ret.tag = "Err"
          /\ new_ret.ptr = 0
          /\ ~new_ret.asked
    /\ \A b \in blocks : IsPow2(b.size)
    /\ \A i \in 1 .. Len(acquired) : IsPow2(acquired[i].size)

C6_Witness ==
    /\ new_ret.called /\ new_ret.size = 6
    /\ new_ret.err = "Not a power of 2"
    /\ Cardinality(blocks) = 1 /\ Len(acquired) = 1

(* C7: every acquired block is released exactly once, at the drop of its       *)
(* Block, by a dealloc call with the pointer, size and alignment of its        *)
(* alloc call; a live Block's memory is not released, and nothing else is.     *)
C7_ReleasedExactlyOnce ==
    /\ \A id \in 1 .. Len(acquired) :
         LET rel == { k \in 1 .. Len(released) : released[k].id = id }
         IN  /\ Cardinality(rel) = IF \E b \in blocks : b.id = id THEN 0 ELSE 1
             /\ \A k \in rel :
                  /\ released[k].ptr = acquired[id].ptr
                  /\ released[k].size = acquired[id].size
                  /\ released[k].align = acquired[id].align
                  /\ released[k].valid
    /\ \A k \in 1 .. Len(released) : released[k].id \in 1 .. Len(acquired)
    /\ heap = { acquired[b.id] : b \in blocks }

C7_Witness ==
    /\ Len(released) = 2
    /\ released[1].id # released[2].id
    /\ released[1].ptr = released[2].ptr
    /\ released[1].size = 4
    /\ blocks = {}

(* C8: the base address of every successfully acquired block is a multiple of  *)
(* the requested size.                                                         *)
C8_SelfAligned ==
    /\ (new_ret.called /\ new_ret.tag = "Ok") => new_ret.ptr % new_ret.size = 0
    /\ \A b \in blocks : b.ptr % b.size = 0

C8_Witness ==
    /\ new_ret.called /\ new_ret.tag = "Ok"
    /\ new_ret.size = 4 /\ new_ret.ptr = 12
    /\ \E b \in blocks : b.size = 2 /\ b.ptr = 2

(* C9: when only line 0 is occupied, find_available_hole(0) returns            *)
(* (LINE_SIZE, BLOCK_SIZE).                                                    *)
C9_OnlyLineZeroOccupied ==
    (query.called /\ query.start_at_loc = 0 /\ OccupiedExactly({0}))
        => query.ret = HoleSome(LINE_SIZE, BLOCK_SIZE)

(* C10: with BLOCK_SIZE = 32768 and LINE_SIZE = 128, when exactly lines 0 and  *)
(* 1 are occupied, find_available_hole(0) returns (384, 32768).                *)
C10_LinesZeroOneOccupied ==
    (/\ BLOCK_SIZE = 32768 /\ LINE_SIZE = 128
     /\ query.called /\ query.start_at_loc = 0 /\ OccupiedExactly({0, 1}))
        => query.ret = HoleSome(384, 32768)

(* C11: in every state reached by allocate calls from cursor = limit = 0,      *)
(* 0 <= cursor <= limit <= BLOCK_SIZE.                                         *)
C11_CursorLimitInvariant ==
    /\ 0 <= cursor /\ cursor <= limit /\ limit <= BLOCK_SIZE
    /\ \A i \in 1 .. Len(hist) :
         /\ 0 <= hist[i].cursor1 /\ hist[i].cursor1 <= hist[i].limit1
         /\ hist[i].limit1 <= BLOCK_SIZE

C11_Witness ==
    /\ Len(hist) = 2
    /\ hist[1].tag = "None" /\ hist[1].alloc_size = BLOCK_SIZE + 1
    /\ hist[2].tag = "Some" /\ hist[2].alloc_size = USIZE_MAX
    /\ 0 < cursor /\ cursor < limit /\ limit < BLOCK_SIZE

C13_OversizedRejectedImmediately ==
    \A i \in 1 .. Len(hist) :
      hist[i].alloc_size > BLOCK_SIZE =>
        /\ hist[i].tag = "None"
        /\ hist[i].scans = 0
        /\ hist[i].cursor1 = hist[i].cursor0
        /\ hist[i].limit1 = hist[i].limit0

(* C14: when cursor + size <= limit, allocate returns base + old cursor, sets  *)
(* cursor to old cursor + size, leaves limit unchanged and makes no scan.      *)
C14_FastPath ==
    \A i \in 1 .. Len(hist) :
      hist[i].cursor0 + hist[i].alloc_size <= hist[i].limit0 =>
        /\ hist[i].tag = "Some"
        /\ hist[i].ptr = block + hist[i].cursor0
        /\ hist[i].cursor1 = hist[i].cursor0 + hist[i].alloc_size
        /\ hist[i].limit1 = hist[i].limit0
        /\ hist[i].scans = 0

C14_Witness ==
    /\ Len(hist) = 2
    /\ hist[2].cursor0 = 1 /\ hist[2].limit0 = 2 * LINE_SIZE
    /\ hist[2].alloc_size = LINE_SIZE
    /\ hist[2].tag = "Some" /\ hist[2].offset = 1
    /\ cursor = LINE_SIZE + 1

(* C18: across the allocate calls on one BumpBlock, cursor and limit never     *)
(* decrease, also when a call returns None.                                    *)
C18_CursorLimitNeverDecrease ==
    \A i \in 1 .. Len(hist) :
      /\ hist[i].cursor1 >= hist[i].cursor0
      /\ hist[i].limit1 >= hist[i].limit0

(* C19: two successful allocations of size > 0 never overlap and a later one   *)
(* starts at or after the end of every earlier one; allocate(0) succeeds       *)
(* whenever cursor <= limit, returns the cursor's address and changes neither  *)
(* cursor nor limit.                                                           *)
C19_DisjointAllocations ==
    /\ \A i \in 1 .. Len(hist), j \in 1 .. Len(hist) :
         (/\ i < j
          /\ hist[i].tag = "Some" /\ hist[i].alloc_size > 0
          /\ hist[j].tag = "Some" /\ hist[j].alloc_size > 0)
            => hist[i].offset + hist[i].alloc_size <= hist[j].offset
    /\ \A i \in 1 .. Len(hist) :
         (hist[i].alloc_size = 0 /\ hist[i].cursor0 <= hist[i].limit0) =>
            /\ hist[i].tag = "Some"
            /\ hist[i].ptr = block + hist[i].cursor0
            /\ hist[i].cursor1 = hist[i].cursor0
            /\ hist[i].limit1 = hist[i].limit0

(* C15: no allocate call (and no hole search it makes) changes the Line Map:   *)
(* the occupancy flags and the block mark stay as they are.                    *)
C15_LineMapUnchanged == [][line' = line /\ black_mark' = black_mark]_vars

C15_Witness ==
    /\ Len(hist) = 2
    /\ hist[1].tag = "None" /\ hist[1].scans = 3
    /\ hist[2].tag = "Some" /\ hist[2].alloc_size = LINE_SIZE
    /\ line = {1, LINE_COUNT \div 2} /\ black_mark = FALSE

(* C16: whenever find_available_hole returns a hole whose start is not offset  *)
(* 0, the line just before the hole's first line is free and is at or after    *)
(* the line the scan started at.                                               *)
C16_ConservativeStart ==
    (query.called /\ query.ret.tag = "Some" /\ query.ret.cursor > 0) =>
        /\ ((query.ret.cursor \div LINE_SIZE) - 1) \notin line
        /\ (query.ret.cursor \div LINE_SIZE) - 1 >= query.start_at_loc \div LINE_SIZE

C16_Witness ==
    /\ query.called /\ query.start_at_loc = LINE_SIZE + 1
    /\ 1 \notin line /\ 0 \notin line
    /\ query.ret = HoleSome(2 * LINE_SIZE, 3 * LINE_SIZE)

(* C17: whenever find_available_hole returns (cursor, limit): both are         *)
(* multiples of LINE_SIZE, start line * LINE_SIZE <= cursor < limit <=          *)
(* BLOCK_SIZE, the lines of the hole are free, the line at limit is occupied   *)
(* or limit = BLOCK_SIZE, and between the scan's start line and the hole there *)
(* is no free run, ended by an occupied line, of two or more lines or          *)
(* beginning at line 0.                                                        *)
C17_FirstHoleInScanOrder ==
    (query.called /\ query.ret.tag = "Some") =>
      LET c == query.ret.cursor
          l == query.ret.limit
          from == query.start_at_loc \div LINE_SIZE
      IN  /\ c % LINE_SIZE = 0 /\ l % LINE_SIZE = 0
          /\ from * LINE_SIZE <= c /\ c < l /\ l <= BLOCK_SIZE
          /\ \A i \in (c \div LINE_SIZE) .. ((l \div LINE_SIZE) - 1) : i \notin line
          /\ (l = BLOCK_SIZE \/ (l \div LINE_SIZE) \in line)
          /\ ~ \E a \in from .. ((c \div LINE_SIZE) - 1),
                  e \in from .. ((c \div LINE_SIZE) - 1) :
                 /\ a < e
                 /\ e \in line
                 /\ (a = from \/ (a - 1) \in line)
                 /\ \A i \in a .. (e - 1) : i \notin line
                 /\ (e - a >= 2 \/ a = 0)

(* a scan that passes a one-line run and returns a hole that is not the        *)
(* largest of the block                                                        *)
C17_Witness ==
    /\ query.called /\ query.start_at_loc = LINE_SIZE
    /\ line = {0, 2, LINE_COUNT - 1}
    /\ query.ret = HoleSome(4 * LINE_SIZE, (LINE_COUNT - 1) * LINE_SIZE)

(* C20: the program of main, run on an input built from (num, divisor) pairs   *)
(* with divisor >= 1, never panics, leaves the stack empty after each Write,   *)
(* and when it has halted with Kill the input is used up, the stack is empty   *)
(* and there is exactly one output per pair, the remainder num mod divisor of  *)
(* the pair it was read from (pairs are read from the end of the input).       *)
C20_RemainderProgram ==
    /\ signal # "panic"
    /\ \A k \in 1 .. Len(output) : output[k].stack = <<>>
    /\ signal = "Kill" =>
         /\ input = <<>> /\ stack = <<>>
         /\ Len(output) = Len(pairs)
         /\ \A k \in 1 .. Len(output) :
              LET pr == pairs[Len(pairs) + 1 - k]
              IN  output[k].out = pr.num % pr.divisor

====
